---- MODULE Spec2Model ----
(***************************************************************************)
(* Model of .github/scripts/close_github_cr_issues.py: one run of main()   *)
(* over the open issues of a repository, with the eligibility gates, the   *)
(* comment checklist matcher, the project status lookup and the closer.    *)
(*                                                                         *)
(* Text is a sequence of one-character strings.  A character outside ASCII *)
(* is written by its code point: "U+2713" is the check mark, "U+2714" the  *)
(* heavy check mark, "U+FE0F" variation selector 16, "U+2705" the white    *)
(* heavy check mark, "U+00E9" e-acute and "U+0301" the combining acute.    *)
(***************************************************************************)
EXTENDS Integers, Sequences, FiniteSets

VARIABLES
  pc,            \* position of main(), or of the function under study
  i,             \* 1-based index of the issue main()'s loop is at
  issues,        \* the snapshot returned by get_issues(): label set per issue
  remoteLabels,  \* the tracker's label set of each issue
  remoteOpen,    \* the tracker's state of each issue: TRUE = open
  checkProject,  \* CHECK_PROJECT_STATUS
  log,           \* every HTTP request issued so far, in order
  hist,          \* per issue: what the gates fetched and returned
  toAdd,         \* add_labels: the labels_to_add argument (a list)
  newLabels,     \* add_labels: new_labels, computed after the GET
  closed_issues, \* main(): numbers of the issues closed, in order
  comments,      \* has_required_checklist: the comments under study
  resp,          \* issue_has_project_status_done: the response under study
  ret,           \* the last value returned by the function under study
  calls          \* how many times add_labels has been called

vars == <<pc, i, issues, remoteLabels, remoteOpen, checkProject, log, hist,
          toAdd, newLabels, closed_issues, comments, resp, ret, calls>>

---------------------------------------------------------------------------
(* Bounds *)
MaxIssues == 2
MaxComments == 2
MaxItems == 2
MaxAdd == 2

---------------------------------------------------------------------------
(* Constants of the script *)
REQUIRED_PRIMARY_LABEL == "Normal Change Request"

REQUIRED_SECONDARY_LABELS == {"Application", "Infrastructure"}

TERMINAL_LABEL == "done"

LABELS_TO_ADD_ON_CLOSE == "Resolution/Done"

REQUIRED_CHECKLIST ==
  { <<"a","s","s","e","s","s","e","d">>, <<"a","u","t","h","o","r","i","z","e","d">>, <<"s","c","h","e","d","u","l","e","d">>, <<"i","m","p","l","e","m","e","n","t","e","d">>, <<"r","e","v","i","e","w","e","d">> }

\* the tuple of line prefixes of line 58
CHECKED_MARKERS ==
  { <<"U+2714","U+FE0F">>, <<"U+2713">>, <<"-"," ","[","x","]">>, <<"*"," ","[","x","]">> }

---------------------------------------------------------------------------
(* Python's str operations, on sequences of characters *)
UpperAlpha == <<"A","B","C","D","E","F","G","H","I","J","K","L","M","N","O","P","Q","R","S","T","U","V","W","X","Y","Z">>

LowerAlpha == <<"a","b","c","d","e","f","g","h","i","j","k","l","m","n","o","p","q","r","s","t","u","v","w","x","y","z">>

Digits == <<"0","1","2","3","4","5","6","7","8","9">>

Range(s) == { s[k] : k \in DOMAIN s }

\* str.lower() of one character
LowerChar(c) ==
  IF c \in Range(UpperAlpha)
    THEN LowerAlpha[CHOOSE k \in DOMAIN UpperAlpha : UpperAlpha[k] = c]
    ELSE c

lower(s) == [k \in DOMAIN s |-> LowerChar(s[k])]

\* the characters str.strip() removes and \s matches
IsSpace(c) == c \in {" ", "\t", "\n", "\r"}

\* the characters \w matches
IsWord(c) == c \in Range(UpperAlpha) \cup Range(LowerAlpha) \cup Range(Digits) \cup {"_"}

RECURSIVE lstrip(_)
lstrip(s) ==
  IF s # <<>> /\ IsSpace(Head(s)) THEN lstrip(Tail(s)) ELSE s

RECURSIVE rstrip(_)
rstrip(s) ==
  IF s # <<>> /\ IsSpace(s[Len(s)]) THEN rstrip(SubSeq(s, 1, Len(s) - 1)) ELSE s

strip(s) == rstrip(lstrip(s))

startswith(s, p) == Len(s) >= Len(p) /\ SubSeq(s, 1, Len(p)) = p

endswith(s, p) == Len(s) >= Len(p) /\ SubSeq(s, Len(s) - Len(p) + 1, Len(s)) = p

\* Python's "sub in s"
Contains(s, sub) ==
  \E k \in 0..(Len(s) - Len(sub)) : SubSeq(s, k + 1, k + Len(sub)) = sub

\* the positions at which a line terminator (\n, \r or \r\n) ends
LineEnds(s) ==
  { k \in DOMAIN s :
      \/ s[k] = "\n"
      \/ s[k] = "\r" /\ ~(k < Len(s) /\ s[k + 1] = "\n") }

\* the position at which the terminator ending at k starts
TerminatorStart(s, k) ==
  IF s[k] = "\n" /\ k > 1 /\ s[k - 1] = "\r" THEN k - 1 ELSE k

\* str.splitlines(): a line ends at \n, \r or \r\n; no empty last line
splitlines(s) ==
  LET ends == LineEnds(s)
      n == Cardinality(ends)
      nth(j) == CHOOSE k \in ends : Cardinality({ e \in ends : e <= k }) = j
      from(j) == IF j = 1 THEN 1 ELSE nth(j - 1) + 1
      terminated == [j \in 1..n |-> SubSeq(s, from(j), TerminatorStart(s, nth(j)) - 1)]
      rest == SubSeq(s, from(n + 1), Len(s))
  IN  IF rest = <<>> THEN terminated ELSE Append(terminated, rest)

\* unicodedata.normalize("NFKD", c) of one character
NFKDChar(c) == IF c = "U+00E9" THEN <<"e", "U+0301">> ELSE <<c>>

RECURSIVE NFKD(_)
NFKD(s) == IF s = <<>> THEN <<>> ELSE NFKDChar(Head(s)) \o NFKD(Tail(s))

\* re.sub(r"[^\w\s]", "", text)
DropNonWord(s) == SelectSeq(s, LAMBDA c : IsWord(c) \/ IsSpace(c))

normalize(text) == strip(lower(DropNonWord(NFKD(text))))

---------------------------------------------------------------------------
(* has_required_checklist *)

\* lines 53-54: the bold wrapper of a whole body is removed
Unwrap(body) ==
  IF startswith(body, <<"*","*">>) /\ endswith(body, <<"*","*">>)
    THEN SubSeq(body, 3, Len(body) - 2)
    ELSE body

\* line 58
IsCheckedLine(line) == \E m \in CHECKED_MARKERS : startswith(line, m)

\* lines 57-62, for one line: the keywords the line adds to found
LineHits(rawline) ==
  LET line == strip(rawline)
  IN  IF IsCheckedLine(line)
        THEN { item \in REQUIRED_CHECKLIST : Contains(normalize(line), item) }
        ELSE {}

\* lines 56-62: the loop over the lines of one body, found threaded through
RECURSIVE ScanLines(_, _)
ScanLines(lines, found) ==
  IF lines = <<>> THEN found
  ELSE ScanLines(Tail(lines), found \cup LineHits(Head(lines)))

\* faulty variant: found is reset for every comment
RECURSIVE ScanComments_LastOnly(_, _)
ScanComments_LastOnly(cs, found) ==
  IF cs = <<>> THEN found
  ELSE ScanComments_LastOnly(Tail(cs), ScanLines(splitlines(Unwrap(Head(cs))), {}))

\* lines 50-62: the loop over the comments
RECURSIVE ScanComments(_, _)
ScanComments(cs, found) ==
  IF cs = <<>> THEN found
  ELSE ScanComments(Tail(cs), ScanLines(splitlines(Unwrap(Head(cs))), found))

\* lines 49-64
has_required_checklist(cs) == REQUIRED_CHECKLIST \subseteq ScanComments(cs, {})

---------------------------------------------------------------------------
(* Comment bodies the tracker may return *)
LineAssessed == <<"U+2713"," ","A","s","s","e","s","s","e","d">>
LineAuthorized == <<"U+2714","U+FE0F"," ","A","U","T","H","O","R","I","Z","E","D">>
LineScheduled == <<"-"," ","[","x","]"," ","S","c","h","e","d","u","l","e","d">>
LineImplemented == <<"*"," ","[","x","]"," ","*","*","I","m","p","l","e","m","e","n","t","e","d","*","*">>
LineReviewed == <<"U+2713"," ","R","e","v","i","e","w","U+00E9","d",".">>

Join2(a, b) == a \o <<"\n">> \o b

\* all five keywords, each on its checked line
BodyFive ==
  Join2(LineAssessed, Join2(LineAuthorized, Join2(LineScheduled,
    Join2(LineImplemented, LineReviewed))))

\* the same five lines in another order
BodyFivePermuted ==
  Join2(LineReviewed, Join2(LineScheduled, Join2(LineAssessed,
    Join2(LineImplemented, LineAuthorized))))

\* four of the five
BodyFour ==
  Join2(LineAssessed, Join2(LineAuthorized, Join2(LineScheduled, LineImplemented)))

\* the fifth alone, the whole body wrapped in bold
BodyFifthBold == <<"*","*","U+2713"," ","R","e","v","i","e","w","e","d","*","*">>

\* the fifth keyword on lines that carry no checked marker
BodyUnmarked == <<"R","e","v","i","e","w","e","d","\n","-"," ","["," ","]"," ","r","e","v","i","e","w","e","d","\n","U+2705"," ","r","e","v","i","e","w","e","d","\n","-"," ","[","X","]"," ","r","e","v","i","e","w","e","d">>

\* three keywords on two indented lines ending in \r\n
BodyThree == <<" "," ","U+2713"," ","a","s","s","e","s","s","e","d",","," ","a","u","t","h","o","r","i","z","e","d","\r","\n","\t","-"," ","[","x","]"," ","s","c","h","e","d","u","l","e","d","\r","\n">>

\* two keywords, the body wrapped in bold over two lines
BodyTwoBold == <<"*","*","-"," ","[","x","]"," ","i","m","p","l","e","m","e","n","t","e","d","\n","*"," ","[","x","]"," ","r","e","v","i","e","w","e","d","*","*">>

Bodies ==
  { BodyFive, BodyFivePermuted, BodyFour, BodyFifthBold, BodyUnmarked,
    BodyThree, BodyTwoBold }

SeqsUpTo(S, n) == UNION { [1..k -> S] : k \in 0..n }

CommentLists == SeqsUpTo(Bodies, MaxComments)

---------------------------------------------------------------------------
(* issue_has_project_status_done *)

\* the board the workflow tracks, and any other board
DesignatedBoard == "Change Requests"

OtherBoard == "Team Backlog"

ValDone == <<"D","o","n","e">>
ValDoneSpaced == <<" ","D","O","N","E","\t">>
ValDoneEmoji == <<"D","o","n","e"," ","U+2705">>
ValInProgress == <<"I","n"," ","P","r","o","g","r","e","s","s">>
ValNotDone == <<"N","o","t"," ","d","o","n","e">>

StatusValues == { ValDone, ValDoneSpaced, ValDoneEmoji, ValInProgress, ValNotDone }

\* a node of fieldValues: a single-select value with its field's name, or the
\* empty object the query yields for a value of any other type
EmptyNode == [field |-> "", name |-> <<>>]

FieldNodes ==
  [field : {"Status", "Priority"}, name : StatusValues] \cup {EmptyNode}

FieldLists ==
  {<<>>} \cup { <<f>> : f \in FieldNodes }
         \cup { <<EmptyNode, f>> : f \in [field : {"Status"}, name : {ValDone, ValInProgress}] }

\* a project item; the query does not select the board's title
ProjectItems == [board : {DesignatedBoard, OtherBoard}, fieldValues : FieldLists]

\* response.json(): structured is FALSE when data.node.projectItems.nodes
\* cannot be reached (a key is missing or null)
Unstructured == [structured |-> FALSE, nodes |-> <<>>]

Responses ==
  { [structured |-> TRUE, nodes |-> n] : n \in SeqsUpTo(ProjectItems, MaxItems) }
    \cup {Unstructured}

\* faulty variant: the name is not lowered
IsDoneName_CaseSensitive(name) == strip(name) = <<"d","o","n","e">>

\* line 102
IsDoneName(name) == strip(lower(name)) = <<"d","o","n","e">>

\* faulty variant: the handler lets the issue through
OnParseError_FailOpen == TRUE

\* lines 104-106: what the lookup returns when reading the response raises
OnParseError == FALSE

\* lines 98-106
issue_has_project_status_done(data) ==
  IF ~data.structured THEN OnParseError
  ELSE \E p \in DOMAIN data.nodes :
         \E f \in DOMAIN data.nodes[p].fieldValues :
           IsDoneName(data.nodes[p].fieldValues[f].name)

---------------------------------------------------------------------------
(* add_labels *)

\* faulty variant: the labels already present are not filtered out
new_labels_NoFilter(labels_to_add, existing_labels) == labels_to_add

\* line 120
new_labels(labels_to_add, existing_labels) ==
  SelectSeq(labels_to_add, LAMBDA label : label \notin existing_labels)

---------------------------------------------------------------------------
(* main *)

\* faulty variant: the status of the response is not looked at
raise_for_status_Ignored(ok, next) == next

\* response.raise_for_status(): where control goes after a call
raise_for_status(ok, next) == IF ok THEN next ELSE "aborted"

\* faulty variant: the test for the terminal label is missing
SkipReason_NoTerminal(labels) ==
  IF REQUIRED_PRIMARY_LABEL \notin labels THEN "primary"
  ELSE IF labels \cap REQUIRED_SECONDARY_LABELS = {} THEN "secondary"
  ELSE "none"

\* lines 152-162: the label gates, in order
SkipReason(labels) ==
  IF REQUIRED_PRIMARY_LABEL \notin labels THEN "primary"
  ELSE IF labels \cap REQUIRED_SECONDARY_LABELS = {} THEN "secondary"
  ELSE IF TERMINAL_LABEL \in labels THEN "done"
  ELSE "none"

\* faulty variant: the checklist gate lets every issue through
ChecklistGate_Open(cs) == TRUE

\* lines 165-167: whether the checklist gate lets the issue through
ChecklistGate(cs) == has_required_checklist(cs)

\* lines 169-176: where control goes once the checklist gate is passed
\* faulty variant: the issue is closed without the call of add_labels
AfterGates_SkipLabels == "labelled"

\* lines 176-177: the first call made for an issue that passed every gate
AfterGates == "add_get"

\* lines 169-176: where control goes once the checklist gate is passed
AfterChecklist(check) == IF check THEN "project" ELSE AfterGates

\* lines 171-173: whether the issue goes on after the project lookup
AfterProject(done) == IF done THEN "go" ELSE "skip"

Request(op, k, ok, payload) ==
  [op |-> op, issue |-> k, ok |-> ok, payload |-> payload,
   before |-> IF k \in DOMAIN remoteLabels THEN remoteLabels[k] ELSE {}]

NoHist ==
  [fetched |-> FALSE, chk |-> FALSE, covered |-> FALSE, queried |-> FALSE,
   structured |-> FALSE, proj |-> FALSE, statusDone |-> FALSE]

\* label sets an open issue may carry
IssueLabelSets ==
  { {REQUIRED_PRIMARY_LABEL, "Application"},
    {REQUIRED_PRIMARY_LABEL, "Infrastructure", "Resolution/Done"},
    {REQUIRED_PRIMARY_LABEL, "bug"},
    {"Application"},
    {REQUIRED_PRIMARY_LABEL, "Application", TERMINAL_LABEL},
    {} }

\* what get_issue_comments may return during a run
RunCommentLists ==
  { <<>>, <<BodyFour>>, <<BodyFive>>, <<BodyFour, BodyFifthBold>>, <<BodyUnmarked, BodyFour>> }

ItemStatusDone ==
  [board |-> DesignatedBoard, fieldValues |-> <<[field |-> "Status", name |-> ValDone]>>]

ItemStatusInProgress ==
  [board |-> DesignatedBoard, fieldValues |-> <<[field |-> "Status", name |-> ValInProgress]>>]

ItemStatusDoneSpaced ==
  [board |-> DesignatedBoard,
   fieldValues |-> <<EmptyNode, [field |-> "Status", name |-> ValDoneSpaced]>>]

ItemStatusDoneEmoji ==
  [board |-> DesignatedBoard, fieldValues |-> <<[field |-> "Status", name |-> ValDoneEmoji]>>]

ItemOtherPriorityDone ==
  [board |-> OtherBoard, fieldValues |-> <<[field |-> "Priority", name |-> ValDone]>>]

\* what the graph query may return during a run
RunResponses ==
  { Unstructured,
    [structured |-> TRUE, nodes |-> <<>>],
    [structured |-> TRUE, nodes |-> <<ItemStatusInProgress>>],
    [structured |-> TRUE, nodes |-> <<ItemStatusDone>>],
    [structured |-> TRUE, nodes |-> <<ItemStatusInProgress, ItemStatusDoneSpaced>>],
    [structured |-> TRUE, nodes |-> <<ItemStatusDoneEmoji>>],
    [structured |-> TRUE, nodes |-> <<ItemOtherPriorityDone>>] }

\* the line begins with a check mark, a heavy check mark with its variation
\* selector, or a checked task-list marker
BeginsWithCheckedMarker(line) ==
  \/ startswith(line, <<"U+2713">>)
  \/ startswith(line, <<"U+2714", "U+FE0F">>)
  \/ startswith(line, <<"-"," ","[","x","]">>)
  \/ startswith(line, <<"*"," ","[","x","]">>)

\* the checklist keywords marked complete in a list of comments: those found,
\* after normalization, on some line of some unwrapped body that begins with
\* a checked marker
CheckedKeywords(cs) ==
  { kw \in REQUIRED_CHECKLIST :
      \E c \in DOMAIN cs :
        \E l \in DOMAIN splitlines(Unwrap(cs[c])) :
          LET line == strip(splitlines(Unwrap(cs[c]))[l])
          IN  BeginsWithCheckedMarker(line) /\ Contains(normalize(line), kw) }

\* the response shows the field Status = "Done" on the designated board
StatusDoneOnBoard(data) ==
  /\ data.structured
  /\ \E p \in DOMAIN data.nodes :
       /\ data.nodes[p].board = DesignatedBoard
       /\ \E f \in DOMAIN data.nodes[p].fieldValues :
            /\ data.nodes[p].fieldValues[f].field = "Status"
            /\ data.nodes[p].fieldValues[f].name = ValDone

Init ==
  /\ \E n \in 0..MaxIssues :
       /\ remoteLabels \in [1..n -> IssueLabelSets]
       /\ remoteOpen = [k \in 1..n |-> TRUE]
       /\ hist = [k \in 1..n |-> NoHist]
  /\ checkProject \in BOOLEAN
  /\ pc = "start"
  /\ i = 0
  /\ issues = <<>>
  /\ log = <<>>
  /\ toAdd = <<LABELS_TO_ADD_ON_CLOSE>>   \* lines 110-111 and 176: the str as a list
  /\ newLabels = <<>>
  /\ closed_issues = <<>>
  /\ comments = <<>>
  /\ resp = Unstructured
  /\ ret = FALSE
  /\ calls = 0

\* lines 138-140 and 36-41
GetIssues ==
  /\ pc = "start"
  /\ \E ok \in BOOLEAN :
       /\ log' = Append(log, Request("list", 0, ok, {}))
       /\ pc' = raise_for_status(ok, "loop")
       /\ issues' = IF pc' = "aborted" THEN issues ELSE remoteLabels
       /\ i' = IF pc' = "aborted" THEN i ELSE 1
  /\ UNCHANGED <<remoteLabels, remoteOpen, checkProject, hist, toAdd, newLabels,
                 closed_issues, comments, resp, ret, calls>>

\* lines 142-162 and 180-183: the loop head and the label gates
LoopHead ==
  /\ pc = "loop"
  /\ IF i > Len(issues)
       THEN pc' = "done" /\ i' = i
       ELSE IF SkipReason(issues[i]) # "none"
         THEN pc' = "loop" /\ i' = i + 1
         ELSE pc' = "comments" /\ i' = i
  /\ UNCHANGED <<issues, remoteLabels, remoteOpen, checkProject, log, hist, toAdd,
                 newLabels, closed_issues, comments, resp, ret, calls>>

\* lines 164-167, 43-47 and 49-64
GetIssueComments ==
  /\ pc = "comments"
  /\ \E ok \in BOOLEAN, cs \in RunCommentLists :
       /\ log' = Append(log, Request("comments", i, ok, {}))
       /\ IF raise_for_status(ok, "next") = "aborted"
            THEN pc' = "aborted" /\ UNCHANGED <<i, hist>>
            ELSE LET passed == ChecklistGate(cs)
                 IN  /\ hist' = [hist EXCEPT ![i].fetched = TRUE,
                                             ![i].chk = has_required_checklist(cs),
                                             ![i].covered = (CheckedKeywords(cs) = REQUIRED_CHECKLIST)]
                     /\ IF passed
                          THEN pc' = AfterChecklist(checkProject) /\ i' = i
                          ELSE pc' = "loop" /\ i' = i + 1
  /\ UNCHANGED <<issues, remoteLabels, remoteOpen, checkProject, toAdd, newLabels,
                 closed_issues, comments, resp, ret, calls>>

\* lines 169-173 and 91-106
ProjectQuery ==
  /\ pc = "project"
  /\ \E ok \in BOOLEAN, data \in RunResponses :
       /\ log' = Append(log, Request("project", i, ok, {}))
       /\ IF raise_for_status(ok, "next") = "aborted"
            THEN pc' = "aborted" /\ UNCHANGED <<i, hist>>
            ELSE /\ hist' = [hist EXCEPT ![i].queried = TRUE,
                                         ![i].structured = data.structured,
                                         ![i].proj = issue_has_project_status_done(data),
                                         ![i].statusDone = StatusDoneOnBoard(data)]
                 /\ IF AfterProject(issue_has_project_status_done(data)) = "skip"
                      THEN pc' = "loop" /\ i' = i + 1
                      ELSE pc' = AfterGates /\ i' = i
  /\ UNCHANGED <<issues, remoteLabels, remoteOpen, checkProject, toAdd, newLabels,
                 closed_issues, comments, resp, ret, calls>>

\* lines 108-124: the GET of add_labels and the label delta
AddLabelsGet ==
  /\ pc = "add_get"
  /\ \E ok \in BOOLEAN :
       /\ log' = Append(log, Request("get_labels", i, ok, {}))
       /\ IF raise_for_status(ok, "next") = "aborted"
            THEN pc' = "aborted" /\ UNCHANGED newLabels
            ELSE /\ newLabels' = new_labels(toAdd, remoteLabels[i])
                 /\ pc' = IF newLabels' = <<>> THEN "labelled" ELSE "add_post"
  /\ UNCHANGED <<i, issues, remoteLabels, remoteOpen, checkProject, hist, toAdd,
                 closed_issues, comments, resp, ret, calls>>

\* lines 126-129: the POST of add_labels
AddLabelsPost ==
  /\ pc = "add_post"
  /\ \E ok \in BOOLEAN :
       /\ log' = Append(log, Request("post_labels", i, ok, Range(newLabels)))
       /\ remoteLabels' = IF ok THEN [remoteLabels EXCEPT ![i] = @ \cup Range(newLabels)]
                                ELSE remoteLabels
       /\ pc' = raise_for_status(ok, "labelled")
  /\ UNCHANGED <<i, issues, remoteOpen, checkProject, hist, toAdd, newLabels,
                 closed_issues, comments, resp, ret, calls>>

\* lines 177-178 and 131-135
CloseIssue ==
  /\ pc = "labelled"
  /\ \E ok \in BOOLEAN :
       /\ log' = Append(log, Request("close", i, ok, {}))
       /\ remoteOpen' = IF ok THEN [remoteOpen EXCEPT ![i] = FALSE] ELSE remoteOpen
       /\ IF raise_for_status(ok, "next") = "aborted"
            THEN pc' = "aborted" /\ UNCHANGED <<i, closed_issues>>
            ELSE /\ closed_issues' = Append(closed_issues, i)
                 /\ pc' = "loop"
                 /\ i' = i + 1
  /\ UNCHANGED <<issues, remoteLabels, checkProject, hist, toAdd, newLabels,
                 comments, resp, ret, calls>>

Next ==
  \/ GetIssues
  \/ LoopHead
  \/ GetIssueComments
  \/ ProjectQuery
  \/ AddLabelsGet
  \/ AddLabelsPost
  \/ CloseIssue

Spec == Init /\ [][Next]_vars

---------------------------------------------------------------------------
(* add_labels on its own: any label set on the issue, any list to add, and a
   second call with the same list once the first has returned *)
LabelUniverse == {"Resolution/Done", "done", "Application"}

AddUniverse == {"Resolution/Done", "done"}

InitAddLabels ==
  /\ \E S \in SUBSET LabelUniverse : remoteLabels = <<S>> /\ issues = <<S>>
  /\ toAdd \in SeqsUpTo(AddUniverse, MaxAdd)
  /\ remoteOpen = <<TRUE>>
  /\ hist = <<NoHist>>
  /\ checkProject = FALSE
  /\ pc = "add_get"
  /\ i = 1
  /\ log = <<>>
  /\ newLabels = <<>>
  /\ closed_issues = <<>>
  /\ comments = <<>>
  /\ resp = Unstructured
  /\ ret = FALSE
  /\ calls = 1

AddLabelsAgain ==
  /\ pc = "labelled"
  /\ calls < 2
  /\ calls' = calls + 1
  /\ newLabels' = <<>>
  /\ pc' = "add_get"
  /\ UNCHANGED <<i, issues, remoteLabels, remoteOpen, checkProject, log, hist, toAdd,
                 closed_issues, comments, resp, ret>>

NextAddLabels == AddLabelsGet \/ AddLabelsPost \/ AddLabelsAgain

SpecAddLabels == InitAddLabels /\ [][NextAddLabels]_vars

---------------------------------------------------------------------------
(* has_required_checklist on its own, over every list of comments *)
InitChecklist ==
  /\ comments \in CommentLists
  /\ pc = "call"
  /\ i = 0
  /\ issues = <<>>
  /\ remoteLabels = <<>>
  /\ remoteOpen = <<>>
  /\ hist = <<>>
  /\ checkProject = FALSE
  /\ log = <<>>
  /\ toAdd = <<>>
  /\ newLabels = <<>>
  /\ closed_issues = <<>>
  /\ resp = Unstructured
  /\ ret = FALSE
  /\ calls = 0

CallChecklist ==
  /\ pc = "call"
  /\ ret' = has_required_checklist(comments)
  /\ pc' = "returned"
  /\ calls' = calls + 1
  /\ UNCHANGED <<i, issues, remoteLabels, remoteOpen, checkProject, log, hist, toAdd,
                 newLabels, closed_issues, comments, resp>>

NextChecklist == CallChecklist

SpecChecklist == InitChecklist /\ [][NextChecklist]_vars

---------------------------------------------------------------------------
(* issue_has_project_status_done on its own, over every response *)
InitStatus ==
  /\ resp \in Responses
  /\ pc = "call"
  /\ i = 0
  /\ issues = <<>>
  /\ remoteLabels = <<>>
  /\ remoteOpen = <<>>
  /\ hist = <<>>
  /\ checkProject = TRUE
  /\ log = <<>>
  /\ toAdd = <<>>
  /\ newLabels = <<>>
  /\ closed_issues = <<>>
  /\ comments = <<>>
  /\ ret = FALSE
  /\ calls = 0

CallStatus ==
  /\ pc = "call"
  /\ ret' = issue_has_project_status_done(resp)
  /\ pc' = "returned"
  /\ calls' = calls + 1
  /\ UNCHANGED <<i, issues, remoteLabels, remoteOpen, checkProject, log, hist, toAdd,
                 newLabels, closed_issues, comments, resp>>

NextStatus == CallStatus

SpecStatus == InitStatus /\ [][NextStatus]_vars

---------------------------------------------------------------------------
(* Properties *)

RequestsFor(k, ops) == { j \in DOMAIN log : log[j].issue = k /\ log[j].op \in ops }

PassesLabelGates(labels) ==
  /\ "Normal Change Request" \in labels
  /\ labels \cap {"Application", "Infrastructure"} # {}
  /\ "done" \notin labels

\* C1: a close call is issued for an issue only if its snapshot labels hold the
\* primary label, a secondary label and not "done", has_required_checklist
\* returned true for its comments and, when CHECK_PROJECT_STATUS is enabled,
\* issue_has_project_status_done returned true for it.
C1_CloseOnlyIfEligible ==
  \A j \in DOMAIN log :
    log[j].op = "close" =>
      LET k == log[j].issue
      IN  /\ PassesLabelGates(issues[k])
          /\ hist[k].fetched /\ hist[k].chk
          /\ checkProject => (hist[k].queried /\ hist[k].proj)

C1_Witness ==
  /\ checkProject
  /\ \E j \in DOMAIN log : log[j].op = "close" /\ log[j].ok
  /\ pc = "done"

\* C2: an issue whose snapshot labels lack the primary label, hold no secondary
\* label or hold "done" is rejected with no comment fetch and no project query
\* (nor any other request) issued for it.
C2_LabelGatesShortCircuit ==
  \A k \in DOMAIN issues :
    ~PassesLabelGates(issues[k]) =>
      RequestsFor(k, {"comments", "project", "get_labels", "post_labels", "close"}) = {}

C2_Witness ==
  /\ pc = "done"
  /\ Len(issues) = 2
  /\ "Normal Change Request" \notin issues[1]
  /\ issues[2] = {"Normal Change Request", "Application", "done"}

\* C3: when the run ends without a failed HTTP call, every listed issue with the
\* primary label, a secondary label, no terminal label, all five keywords marked
\* complete in its comments and (where the project gate is on) Status = "Done"
\* on the designated board is closed and carries "Resolution/Done".
C3_EligibleIssueClosed ==
  pc = "done" =>
    \A k \in DOMAIN issues :
      ( /\ PassesLabelGates(issues[k])
        /\ hist[k].fetched /\ hist[k].covered
        /\ checkProject => (hist[k].queried /\ hist[k].statusDone) )
      => (~remoteOpen[k] /\ "Resolution/Done" \in remoteLabels[k])

C3_Witness ==
  /\ pc = "done"
  /\ checkProject
  /\ \E k \in DOMAIN issues :
       /\ issues[k] = {"Normal Change Request", "Application"}
       /\ hist[k].covered /\ hist[k].statusDone
       /\ ~remoteOpen[k]
       /\ remoteLabels[k] = issues[k] \cup {"Resolution/Done"}

\* a value that denotes done under the most generous reading: the word done
\* appears in it once normalized
DenotesDone(name) == Contains(normalize(name), <<"d","o","n","e">>)

\* a value that is the word done with decoration only
DecoratedDone(name) == normalize(name) = <<"d","o","n","e">>

HasField(data, boards, fields, Val(_)) ==
  /\ data.structured
  /\ \E p \in DOMAIN data.nodes :
       /\ data.nodes[p].board \in boards
       /\ \E f \in DOMAIN data.nodes[p].fieldValues :
            /\ data.nodes[p].fieldValues[f].field \in fields
            /\ Val(data.nodes[p].fieldValues[f].name)

\* C4: issue_has_project_status_done returns true only if some item on the
\* designated board has a field named "Status" whose value denotes done.
C4_OnlyStatusOnDesignatedBoard ==
  (pc = "returned" /\ ret) => HasField(resp, {DesignatedBoard}, {"Status"}, DenotesDone)

\* C5: for a "Status" field on the designated board whose value is the word
\* done with decoration (case, surrounding whitespace, a trailing emoji), the
\* lookup returns true.
C5_DecoratedDoneAccepted ==
  (pc = "returned" /\ HasField(resp, {DesignatedBoard}, {"Status"}, DecoratedDone)) => ret

\* C6 as stated: no error of the project lookup, a failed graph request
\* included, ever aborts the run.
C6_LookupErrorNeverAborts ==
  \A j \in DOMAIN log : (log[j].op = "project" /\ ~log[j].ok) => pc # "aborted"

\* C6 as amended: a response that lacks the expected structure makes the lookup
\* return false; that issue is skipped unmodified, no label or close request is
\* issued for it and the run goes on to the next issue; a failed graph request
\* aborts the run.
C6_SchemaErrorFailsClosed ==
  /\ \A k \in DOMAIN hist :
       (hist[k].queried /\ ~hist[k].structured) =>
         /\ ~hist[k].proj
         /\ i > k
         /\ remoteOpen[k] /\ remoteLabels[k] = issues[k]
         /\ RequestsFor(k, {"get_labels", "post_labels", "close"}) = {}
         /\ pc = "aborted" => log[Len(log)].issue # k
  /\ \A j \in DOMAIN log :
       (log[j].op = "project" /\ ~log[j].ok) => (pc = "aborted" /\ j = Len(log))

C6_Witness ==
  /\ pc = "done"
  /\ Len(issues) = 2
  /\ hist[1].queried /\ ~hist[1].structured
  /\ closed_issues = <<2>>

\* C7: a non-success response to the listing, a comment fetch, a label add or a
\* close call aborts the run there: the call is not retried and no request of
\* any kind follows it.
C7_FailureAbortsRun ==
  \A j \in DOMAIN log :
    (log[j].op \in {"list", "comments", "get_labels", "post_labels", "close"} /\ ~log[j].ok)
      => (j = Len(log) /\ pc = "aborted")

C7_Witness ==
  /\ pc = "aborted"
  /\ Len(issues) = 2
  /\ PassesLabelGates(issues[2])
  /\ log[Len(log)].op = "post_labels" /\ log[Len(log)].issue = 1

\* C8: add_labels posts exactly the requested labels the issue lacks, and
\* nothing when it lacks none; a second call with the same labels posts nothing
\* and leaves the label set of the first call.
C8_AddLabelsIdempotent ==
  /\ \A j \in DOMAIN log :
       log[j].op = "post_labels" =>
         /\ log[j].payload # {}
         /\ log[j].payload = Range(toAdd) \ log[j].before
  /\ \A j \in DOMAIN log :
       (log[j].op = "get_labels" /\ log[j].ok /\ Range(toAdd) \subseteq log[j].before)
         => \A m \in DOMAIN log : m > j => log[m].op # "post_labels"
  /\ Cardinality({ j \in DOMAIN log : log[j].op = "post_labels" }) <= 1
  /\ (pc = "labelled" /\ calls = 2) =>
       /\ remoteLabels[1] = log[Len(log)].before
       /\ remoteLabels[1] = issues[1] \cup Range(toAdd)

C8_Witness ==
  /\ pc = "labelled" /\ calls = 2
  /\ issues[1] = {"done", "Application"}
  /\ toAdd = <<"done", "Resolution/Done">>
  /\ Len(log) = 3
  /\ log[2].op = "post_labels" /\ log[2].payload = {"Resolution/Done"}

\* C9: the label addition completes before the close call is issued, so no
\* issue is closed while lacking "Resolution/Done"; when the close call fails
\* after the label was added, the issue stays open with the label applied.
C9_LabelBeforeClose ==
  /\ \A k \in DOMAIN remoteOpen : ~remoteOpen[k] => "Resolution/Done" \in remoteLabels[k]
  /\ \A j \in DOMAIN log :
       log[j].op = "close" =>
         /\ "Resolution/Done" \in log[j].before
         /\ \E m \in 1..(j - 1) :
              log[m].op = "get_labels" /\ log[m].issue = log[j].issue /\ log[m].ok
         /\ ~log[j].ok =>
              /\ remoteOpen[log[j].issue]
              /\ "Resolution/Done" \in remoteLabels[log[j].issue]

C9_Witness ==
  /\ pc = "aborted"
  /\ Len(log) >= 2
  /\ log[Len(log)].op = "close" /\ ~log[Len(log)].ok
  /\ log[Len(log) - 1].op = "post_labels" /\ log[Len(log) - 1].ok
  /\ remoteOpen[i]
  /\ "Resolution/Done" \in remoteLabels[i] /\ "Resolution/Done" \notin issues[i]

\* the comment lists obtained by exchanging two comments
SwapComments(cs) ==
  { [k \in DOMAIN cs |-> IF k = a THEN cs[b] ELSE IF k = b THEN cs[a] ELSE cs[k]] :
      a \in DOMAIN cs, b \in DOMAIN cs }

RECURSIVE JoinLines(_)
JoinLines(lines) ==
  IF lines = <<>> THEN <<>>
  ELSE IF Len(lines) = 1 THEN Head(lines)
  ELSE Head(lines) \o <<"\n">> \o JoinLines(Tail(lines))

IsWrapped(body) == startswith(body, <<"*","*">>) /\ endswith(body, <<"*","*">>)

\* the bodies obtained by exchanging two lines of a body, inside its bold
\* wrapper when it has one
SwapLines(body) ==
  LET lines == splitlines(Unwrap(body))
      swapped(a, b) ==
        JoinLines([k \in DOMAIN lines |->
                    IF k = a THEN lines[b] ELSE IF k = b THEN lines[a] ELSE lines[k]])
  IN  { IF IsWrapped(body) THEN <<"*","*">> \o swapped(a, b) \o <<"*","*">> ELSE swapped(a, b) :
          a \in DOMAIN lines, b \in DOMAIN lines }

Reordered(cs) ==
  SwapComments(cs) \cup
  UNION { { [cs EXCEPT ![c] = nb] : nb \in SwapLines(cs[c]) } : c \in DOMAIN cs }

====
